---- MODULE Spec2Model ----
(***************************************************************************)
(* The NexenPlayer component (src/unnamed/part_000, lines 238-1821) as a   *)
(* state machine.  React state is committed per render; a handler reads    *)
(* the values of the render that created it (its closure) and queues       *)
(* updates; the render that follows commits them and runs the effects      *)
(* whose dependencies changed.  One action is one event of the UI event    *)
(* loop: the handler, the re-render and the effects, to quiescence.        *)
(*                                                                         *)
(* In the operators below  c  is the closure (the render a handler or an   *)
(* effect was created by) and  w  the world being built: queued state,     *)
(* refs (mutable at once), timers, animations and the callbacks invoked.   *)
(***************************************************************************)
EXTENDS Integers, Sequences, FiniteSets, TLC

MaxItems == 3
MaxBatch == 2
MaxTimers == 2
MaxTime == 2

Undef == 0 - 1

B2N(b) == IF b THEN 1 ELSE 0

VARIABLES
  mounted,
  showControl, showMoreControl, showSpeedControl, showTrackControl,
  showPlaylistControl,
  error, locked, nexenConfig, fullScreen, paused, playList,
  nexenSource, trackInfo,
  isSeekable, gestureEnabled, isStopped, isEnded, isFullscreen,
  controlTimeoutRef,
  firstRender, onEndPlayList,
  timers, staleTimers, hideAnim, hideAnimStale, panelHide,
  appState, systemBarHidden,
  calls, lastOp,
  idle, unmounted

world == << mounted, showControl, showMoreControl, showSpeedControl,
           showTrackControl, showPlaylistControl, error, locked, nexenConfig,
           fullScreen, paused, playList, nexenSource, trackInfo,
           isSeekable, gestureEnabled,
           isStopped, isEnded, isFullscreen, controlTimeoutRef, firstRender,
           onEndPlayList, timers, staleTimers, hideAnim, hideAnimStale,
           panelHide, appState, systemBarHidden, calls, lastOp >>

vars == << world, idle, unmounted >>

-----------------------------------------------------------------------------
(* Option bags: a config or a playlist is a function from the names of the *)
(* fields it has to their values; a field it lacks is undefined.           *)

NoFields == [f \in {} |-> Undef]

Spread(a, b) ==
  [f \in (DOMAIN a) \cup (DOMAIN b) |-> IF f \in DOMAIN b THEN b[f] ELSE a[f]]

Truthy(o, f) == f \in DOMAIN o /\ o[f] = TRUE

Num(o, f) == IF f \in DOMAIN o THEN o[f] ELSE Undef

(* Faulty variant of the initial config: another default volume. *)
DefaultConfig_loud ==
  [ loaderText |-> "Loading...", errorText |-> "Error...!",
    doubleTapTime |-> 300, controlTimeout |-> 5000,
    controlHideMode |-> "touch", layoutMode |-> "intermediate",
    posterResizeMode |-> "cover", resizeMode |-> "contain",
    volume |-> 100, brightness |-> 25, playbackSpeed |-> "1.0",
    muted |-> FALSE, repeat |-> FALSE, autoPlay |-> FALSE,
    disableOnScreenPlayButton |-> FALSE, disableBack |-> FALSE,
    disableResizeMode |-> FALSE, disableMore |-> FALSE,
    disableSkip |-> FALSE, disableStop |-> FALSE, disableVolume |-> FALSE,
    disableFullscreen |-> FALSE, disablePlayList |-> FALSE,
    disableSubtitle |-> FALSE ]

DefaultConfig ==
  [ loaderText |-> "Loading...", errorText |-> "Error...!",
    doubleTapTime |-> 300, controlTimeout |-> 5000,
    controlHideMode |-> "touch", layoutMode |-> "intermediate",
    posterResizeMode |-> "cover", resizeMode |-> "contain",
    volume |-> 80, brightness |-> 25, playbackSpeed |-> "1.0",
    muted |-> FALSE, repeat |-> FALSE, autoPlay |-> FALSE,
    disableOnScreenPlayButton |-> FALSE, disableBack |-> FALSE,
    disableResizeMode |-> FALSE, disableMore |-> FALSE,
    disableSkip |-> FALSE, disableStop |-> FALSE, disableVolume |-> FALSE,
    disableFullscreen |-> FALSE, disablePlayList |-> FALSE,
    disableSubtitle |-> FALSE ]

DefaultPlayList == [items |-> 0, currentIndex |-> 0]

(* The source prop, and the itemSource of item i of the playlist: objects  *)
(* of the host, which the component reads and never writes.  The host      *)
(* selects no track in them.                                               *)
PlayerSource == [source |-> << "prop" >>]

ItemSource(i) == [source |-> << "item", i >>]

-----------------------------------------------------------------------------
(* The world: React state, refs, closures, timers and animations, and the  *)
(* transient marks of one event (what was queued, what was invoked).       *)

Cur ==
  [ mounted |-> mounted,
    showControl |-> showControl, showMoreControl |-> showMoreControl,
    showSpeedControl |-> showSpeedControl,
    showTrackControl |-> showTrackControl,
    showPlaylistControl |-> showPlaylistControl,
    error |-> error, locked |-> locked, nexenConfig |-> nexenConfig,
    fullScreen |-> fullScreen, paused |-> paused, playList |-> playList,
    nexenSource |-> nexenSource, trackInfo |-> trackInfo,
    isSeekable |-> isSeekable, gestureEnabled |-> gestureEnabled,
    isStopped |-> isStopped, isEnded |-> isEnded,
    isFullscreen |-> isFullscreen, controlTimeoutRef |-> controlTimeoutRef,
    firstRender |-> firstRender, onEndPlayList |-> onEndPlayList,
    timers |-> timers, staleTimers |-> staleTimers, hideAnim |-> hideAnim,
    hideAnimStale |-> hideAnimStale, panelHide |-> panelHide,
    appState |-> appState,
    calls |-> << >>,
    configTouched |-> FALSE, overflow |-> FALSE, renderThrew |-> FALSE ]

(* NexenPlayerModule.hideSystemBar() / showSystemBar(): the bar is as the   *)
(* last of the event's calls left it.                                      *)
SystemBarAfter(hidden, cs) ==
  LET bar == SelectSeq(cs, LAMBDA k :
                             k.name \in {"hideSystemBar", "showSystemBar"})
  IN  IF bar = << >> THEN hidden ELSE bar[Len(bar)].name = "hideSystemBar"

Commit(w, op) ==
  /\ ~w.overflow
  /\ mounted' = w.mounted
  /\ showControl' = w.showControl
  /\ showMoreControl' = w.showMoreControl
  /\ showSpeedControl' = w.showSpeedControl
  /\ showTrackControl' = w.showTrackControl
  /\ showPlaylistControl' = w.showPlaylistControl
  /\ error' = w.error
  /\ locked' = w.locked
  /\ nexenConfig' = w.nexenConfig
  /\ fullScreen' = w.fullScreen
  /\ paused' = w.paused
  /\ playList' = w.playList
  /\ nexenSource' = w.nexenSource
  /\ trackInfo' = w.trackInfo
  /\ isSeekable' = w.isSeekable
  /\ gestureEnabled' = w.gestureEnabled
  /\ isStopped' = w.isStopped
  /\ isEnded' = w.isEnded
  /\ isFullscreen' = w.isFullscreen
  /\ controlTimeoutRef' = w.controlTimeoutRef
  /\ firstRender' = w.firstRender
  /\ onEndPlayList' = w.onEndPlayList
  /\ timers' = w.timers
  /\ staleTimers' = w.staleTimers
  /\ hideAnim' = w.hideAnim
  /\ hideAnimStale' = w.hideAnimStale
  /\ panelHide' = w.panelHide
  /\ appState' = w.appState
  /\ systemBarHidden' = SystemBarAfter(systemBarHidden, w.calls)
  /\ calls' = w.calls
  /\ lastOp' = op
  /\ idle' = idle
  /\ unmounted' = (unmounted \/ ((mounted \/ w.renderThrew) /\ ~w.mounted))

(* A callback prop of the host, or a call into the native video element,   *)
(* as it is invoked: its name, its first argument and its index argument.  *)
Call(w, name, arg, idx) ==
  [w EXCEPT !.calls = Append(@, [name |-> name, arg |-> arg, idx |-> idx])]

(* nexenConfig?.optimize ? nexenConfig.index : playList?.currentIndex *)
CallbackIndex(c) ==
  IF Truthy(c.nexenConfig, "optimize")
    THEN Num(c.nexenConfig, "index")
    ELSE Num(c.playList, "currentIndex")

(* The Video element is rendered, so videoRef.current is set. *)
VideoMounted(c) ==
  Truthy(c.nexenConfig, "optimize")
    => Num(c.nexenConfig, "index") = Num(c.nexenConfig, "activeIndex")

(* videoRef.current?.seek(t) *)
videoSeek(c, w, t) ==
  IF VideoMounted(c) THEN Call(w, "seek", t, Undef) ELSE w

setNexenConfig(w, cfg) ==
  [w EXCEPT !.nexenConfig = cfg, !.configTouched = TRUE]

-----------------------------------------------------------------------------
(* Main controls: show, hide animation, auto-hide timer. *)

showMainControl(w) == [w EXCEPT !.showControl = TRUE]

(* The completion callback of hideMainControl: setShowControl(false).  The *)
(* mark "controlHidden" records, for a callback that hides controls that   *)
(* are shown, whether its trigger predates the present visibility period   *)
(* (arg 1) or not (arg 0).                                                 *)
hideCallback(w) ==
  [ (IF w.showControl
       THEN Call(w, "controlHidden", B2N(w.hideAnimStale), Undef)
       ELSE w)
    EXCEPT !.showControl = FALSE, !.hideAnim = FALSE, !.hideAnimStale = FALSE ]

(* Animated.parallel([...]).start(): an animation that starts on the four  *)
(* animated values stops the one running on them, whose callback is then   *)
(* called at once (finished: false).  Only the hide animation has one.     *)
startControlShowAnimation(w) == IF w.hideAnim THEN hideCallback(w) ELSE w

startControlHideAnimation(w, stale) ==
  [ (IF w.hideAnim THEN hideCallback(w) ELSE w)
    EXCEPT !.hideAnim = TRUE, !.hideAnimStale = stale ]

hideMainControl(w, stale) == startControlHideAnimation(w, stale)

FreeTimers(w) == (1 .. MaxTimers) \ w.timers

(* Faulty variant of setControlTimeout: no timer is armed. *)
setControlTimeout_unarmed(w) == w

(* controlTimeoutRef.current = setTimeout(hideMainControl, controlTimeout) *)
setControlTimeout(w) ==
  IF FreeTimers(w) = {}
    THEN [w EXCEPT !.overflow = TRUE]
    ELSE LET id == CHOOSE i \in FreeTimers(w) :
                     \A j \in FreeTimers(w) : i <= j
         IN  [w EXCEPT !.timers = @ \cup {id},
                       !.staleTimers = @ \ {id},
                       !.controlTimeoutRef = id]

(* if (controlTimeoutRef.current) clearTimeout(controlTimeoutRef.current) *)
clearControlTimeout(w) ==
  IF w.controlTimeoutRef # 0
    THEN [w EXCEPT !.timers = @ \ {w.controlTimeoutRef},
                   !.staleTimers = @ \ {w.controlTimeoutRef}]
    ELSE w

-----------------------------------------------------------------------------
(* Modal panels.  ref.current?.hide(cb) reaches a panel only while it is   *)
(* rendered; its callback runs when the panel's hide animation ends.       *)

showMoreOptions(w) == [w EXCEPT !.showMoreControl = TRUE]

hideMoreOptions(c, w) ==
  IF c.showMoreControl THEN [w EXCEPT !.panelHide = @ \cup {"more"}] ELSE w

showPlaybackSpeedControl(w) == [w EXCEPT !.showSpeedControl = TRUE]

hidePlaybackSpeedControl(c, w) ==
  IF c.showSpeedControl THEN [w EXCEPT !.panelHide = @ \cup {"speed"}] ELSE w

showSubtitleTrackControl(w) == [w EXCEPT !.showTrackControl = TRUE]

hideSubtitleTrackControl(c, w) ==
  IF c.showTrackControl THEN [w EXCEPT !.panelHide = @ \cup {"track"}] ELSE w

showVideoListControl(w) == [w EXCEPT !.showPlaylistControl = TRUE]

hideVideoListControl(c, w) ==
  IF c.showPlaylistControl
    THEN [w EXCEPT !.panelHide = @ \cup {"playlist"}]
    ELSE w

panelHidden(w, p) ==
  [ (CASE p = "more" -> [w EXCEPT !.showMoreControl = FALSE]
       [] p = "speed" -> [w EXCEPT !.showSpeedControl = FALSE]
       [] p = "track" -> [w EXCEPT !.showTrackControl = FALSE]
       [] OTHER -> [w EXCEPT !.showPlaylistControl = FALSE])
    EXCEPT !.panelHide = @ \ {p} ]

-----------------------------------------------------------------------------
(* Gesture view. *)

onSingleTap_gestureKept(c, w) ==
  IF c.showMoreControl THEN hideMoreOptions(c, w)
  ELSE IF c.showSpeedControl THEN hidePlaybackSpeedControl(c, w)
  ELSE IF c.showTrackControl THEN hideSubtitleTrackControl(c, w)
  ELSE IF c.showPlaylistControl THEN hideVideoListControl(c, w)
  ELSE IF c.showControl THEN hideMainControl(w, FALSE)
  ELSE showMainControl(w)

onSingleTap(c, w) ==
  IF c.showMoreControl
    THEN [hideMoreOptions(c, w) EXCEPT !.gestureEnabled = TRUE]
  ELSE IF c.showSpeedControl
    THEN [hidePlaybackSpeedControl(c, w) EXCEPT !.gestureEnabled = TRUE]
  ELSE IF c.showTrackControl
    THEN [hideSubtitleTrackControl(c, w) EXCEPT !.gestureEnabled = TRUE]
  ELSE IF c.showPlaylistControl
    THEN [hideVideoListControl(c, w) EXCEPT !.gestureEnabled = TRUE]
  ELSE IF c.showControl
    THEN hideMainControl(w, FALSE)
  ELSE showMainControl(w)

(* DOUBLE_TAP_LEFT and DOUBLE_TAP_RIGHT: if (value) { seek; trackTime }. *)
onDoubleTapSeek(c, w, value) ==
  IF value # 0
    THEN [videoSeek(c, w, value)
            EXCEPT !.trackInfo = Spread(@, [trackTime |-> value])]
    ELSE w

handleDoubleTapPlayPause(c, w) ==
  IF c.paused THEN [w EXCEPT !.paused = FALSE] ELSE [w EXCEPT !.paused = TRUE]

-----------------------------------------------------------------------------
(* Playback. *)

handleStopPlayback(c, w) ==
  LET w1 == [w EXCEPT !.isStopped = TRUE]
  IN  IF c.paused
        THEN Call(videoSeek(c, w1, 0), "onStop", 0, CallbackIndex(c))
      ELSE IF w1.isEnded /\ Truthy(c.nexenConfig, "repeat")
        THEN Call(videoSeek(c, [w1 EXCEPT !.paused = FALSE], 0),
                  "onStop", 0, CallbackIndex(c))
      ELSE [w1 EXCEPT !.paused = TRUE]

onTogglePlayPause(w) == [w EXCEPT !.paused = ~@]

onPlayPress(w) == [w EXCEPT !.paused = FALSE]

Less(a, b) == a # Undef /\ b # Undef /\ a < b

ItemsLength(pl) == Num(pl, "items")

onSkipNext(c, w) ==
  IF Less(Num(c.playList, "currentIndex"), ItemsLength(c.playList) - 1)
       /\ ItemsLength(c.playList) # Undef
    THEN LET index == c.playList["currentIndex"] + 1
         IN  Call([w EXCEPT !.playList = Spread(@, [currentIndex |-> index])],
                  "onSkipNext", index, Undef)
    ELSE w

onSkipBack(c, w) ==
  IF Less(0, Num(c.playList, "currentIndex"))
    THEN LET index == c.playList["currentIndex"] - 1
         IN  Call([w EXCEPT !.playList = Spread(@, [currentIndex |-> index])],
                  "onSkipBack", index, Undef)
    ELSE w

onPlaylistItemPress(w, index) ==
  Call([w EXCEPT !.playList = Spread(@, [currentIndex |-> index])],
       "onPlayListItemSelect", index, Undef)

-----------------------------------------------------------------------------
(* Fullscreen. *)

setFullScreenMode(c, w, fs) ==
  Call([w EXCEPT !.fullScreen = fs],
       "onFullScreenModeUpdate", B2N(fs), CallbackIndex(c))

(* Faulty variant of _onToggleFullScreen: reports the old value. *)
onToggleFullScreen_oldValue(c, w) ==
  LET w1 == Call(w, IF c.fullScreen THEN "showSystemBar" ELSE "hideSystemBar",
                 Undef, Undef)
      w2 == Call(w1, "onFullScreenModeUpdate", B2N(c.fullScreen),
                 CallbackIndex(c))
  IN  [w2 EXCEPT !.fullScreen = ~@]

onToggleFullScreen(c, w) ==
  LET w1 == Call(w, IF c.fullScreen THEN "showSystemBar" ELSE "hideSystemBar",
                 Undef, Undef)
      w2 == Call(w1, "onFullScreenModeUpdate", B2N(~c.fullScreen),
                 CallbackIndex(c))
  IN  [w2 EXCEPT !.fullScreen = ~@]

onBackPress_passThrough(w) == Call(w, "onBackPress", Undef, Undef)

(* Registered once, at mount: its closure is the first render's. *)
onBackPress(w) ==
  IF w.isFullscreen
    THEN Call(Call([w EXCEPT !.fullScreen = FALSE],
                   "showSystemBar", Undef, Undef),
              "onFullScreenModeUpdate", 0, CallbackIndex(w.firstRender))
    ELSE Call(w, "onBackPress", Undef, Undef)

(* return true, after either branch: the press is consumed. *)
onBackPressResult(w) == TRUE

(* The AppState 'change' listener of the mount effect. *)
onAppStateChange(w, nextAppState) ==
  LET w1 == IF /\ w.appState \in {"inactive", "background"}
               /\ nextAppState = "active"
               /\ w.isFullscreen
              THEN Call(w, "hideSystemBar", Undef, Undef)
              ELSE w
  IN  [w1 EXCEPT !.appState = nextAppState]

-----------------------------------------------------------------------------
(* Header, footer and more-menu buttons. *)

onMorePress(w) ==
  [hideMainControl(showMoreOptions(w), FALSE) EXCEPT !.gestureEnabled = FALSE]

handleLockScreen(w) ==
  Call([w EXCEPT !.locked = TRUE], "onScreenLockUpdate", 1, Undef)

handleRepeatVideo(w, repeat) ==
  Call(setNexenConfig(w, Spread(w.nexenConfig, [repeat |-> repeat])),
       "onRepeatUpdate", B2N(repeat), Undef)

onMoreItemPress(c, w, item) ==
  CASE item = "lock" ->
         [handleLockScreen(hideMoreOptions(c, w))
            EXCEPT !.isSeekable = FALSE, !.gestureEnabled = FALSE]
    [] item = "speed" ->
         [showPlaybackSpeedControl(hideMoreOptions(c, w))
            EXCEPT !.gestureEnabled = FALSE]
    [] OTHER ->
         [handleRepeatVideo(hideMoreOptions(c, w),
                            ~Truthy(c.nexenConfig, "repeat"))
            EXCEPT !.gestureEnabled = TRUE]

onCcPress(w) ==
  [showSubtitleTrackControl(hideMainControl(w, FALSE))
     EXCEPT !.gestureEnabled = FALSE]

onTextTrackSelect(w, selectedTextTrack) ==
  [w EXCEPT !.nexenSource =
     Spread(@, [selectedTextTrack |-> selectedTextTrack])]

onAudioTrackSelect(w, selectedAudioTrack) ==
  [w EXCEPT !.nexenSource =
     Spread(@, [selectedAudioTrack |-> selectedAudioTrack])]

onVideoListPress(w) ==
  [showVideoListControl(hideMainControl(w, FALSE))
     EXCEPT !.gestureEnabled = FALSE]

onReachedToEnd(w) ==
  [w EXCEPT !.locked = FALSE, !.isSeekable = TRUE, !.gestureEnabled = TRUE]

-----------------------------------------------------------------------------
(* Callbacks of the video element.  _onLoad and _onError are memoised with *)
(* no dependencies: their closure is the first render's.                   *)

onLoad(w) ==
  LET c  == w.firstRender
      w1 == Call([w EXCEPT !.error = FALSE], "onLoad", Undef, CallbackIndex(c))
      w2 == IF Truthy(c.nexenConfig, "autoPlay")
              THEN [w1 EXCEPT !.paused = FALSE]
              ELSE w1
  IN  [w2 EXCEPT !.trackInfo = Spread(@, [trackTime |-> 0,
                                          totalTrackTime |-> MaxTime]),
                 !.isSeekable = TRUE, !.gestureEnabled = TRUE,
                 !.isStopped = FALSE]

(* Memoised on [paused, nexenConfig]: its playList is the one of the       *)
(* render in which either last changed.                                    *)
onEnd(c, w) ==
  handleStopPlayback([c EXCEPT !.playList = w.onEndPlayList],
                     [w EXCEPT !.isEnded = TRUE])

onSeek(w, atZero) ==
  IF w.isStopped /\ atZero
    THEN [w EXCEPT !.trackInfo = Spread(@, [trackTime |-> 0,
                                            cachedTrackTime |-> 0]),
                   !.isEnded = FALSE, !.isStopped = FALSE]
    ELSE w

(* setTrackInfo of the progress event (no seek bar drag is in progress). *)
onProgress(w, t, playable) ==
  [w EXCEPT !.trackInfo = [trackTime |-> t, cachedTrackTime |-> playable,
                           totalTrackTime |-> MaxTime]]

(* Faulty variant of _onError: the error flag is not raised. *)
onError_unflagged(w) == Call(w, "onError", Undef, Undef)

onError(w) == Call([w EXCEPT !.error = TRUE], "onError", Undef, Undef)

-----------------------------------------------------------------------------
(* Effects.  r is the render being committed. *)

RESIZE_MODE_VALUES == << "contain", "cover", "stretch" >>

IndexOf(seq, x) ==
  IF \E i \in 1 .. Len(seq) : seq[i] = x
    THEN (CHOOSE i \in 1 .. Len(seq) : seq[i] = x) - 1
    ELSE 0 - 1

(* _onGestureMove, VOLUME and BRIGHTNESS: the value goes to the video      *)
(* element (videoRef.current?.setNativeProps) or to the screen.            *)
onGestureMove(w, event, value) ==
  IF event = "VOLUME"
    THEN IF VideoMounted(w)
           THEN Call(w, "setNativeProps.volume", value, Undef)
           ELSE w
    ELSE Call(w, "setBrightness", value, Undef)

onGestureEnd_silent(w, event, value) ==
  IF event = "VOLUME"
    THEN setNexenConfig(onGestureMove(w, event, value),
                        Spread(w.nexenConfig, [volume |-> value]))
    ELSE setNexenConfig(onGestureMove(w, event, value),
                        Spread(w.nexenConfig, [brightness |-> value]))

(* GestureEventType.VOLUME / BRIGHTNESS at the end of the gesture. *)
onGestureEnd(w, event, value) ==
  IF event = "VOLUME"
    THEN Call(setNexenConfig(onGestureMove(w, event, value),
                             Spread(w.nexenConfig, [volume |-> value])),
              "onVolumeUpdate", value, Undef)
    ELSE Call(setNexenConfig(onGestureMove(w, event, value),
                             Spread(w.nexenConfig, [brightness |-> value])),
              "onBrightnessUpdate", value, Undef)

onVolumeSeekEnd(w, value) ==
  Call(setNexenConfig(w, Spread(w.nexenConfig, [volume |-> value])),
       "onVolumeUpdate", value, Undef)

onSpeedUpdate(w, value) ==
  Call(setNexenConfig(w, Spread(w.nexenConfig, [playbackSpeed |-> value])),
       "onSpeedUpdate", value, Undef)

handleResizeMode_stuck(w, resizeMode) ==
  LET currentIndex == IndexOf(RESIZE_MODE_VALUES, resizeMode)
  IN  IF currentIndex < Len(RESIZE_MODE_VALUES) - 1
        THEN setNexenConfig(w, Spread(w.nexenConfig,
               [resizeMode |-> RESIZE_MODE_VALUES[currentIndex + 2]]))
        ELSE setNexenConfig(w, Spread(w.nexenConfig,
               [resizeMode |-> RESIZE_MODE_VALUES[Len(RESIZE_MODE_VALUES)]]))

handleResizeMode(w, resizeMode) ==
  LET currentIndex == IndexOf(RESIZE_MODE_VALUES, resizeMode)
  IN  IF currentIndex < Len(RESIZE_MODE_VALUES) - 1
        THEN setNexenConfig(w, Spread(w.nexenConfig,
               [resizeMode |-> RESIZE_MODE_VALUES[currentIndex + 2]]))
        ELSE setNexenConfig(w, Spread(w.nexenConfig,
               [resizeMode |-> RESIZE_MODE_VALUES[1]]))

onAspectRatioPress(c, w) ==
  handleResizeMode(w, Num(c.nexenConfig, "resizeMode"))

handleMuteVideo(w, mute) ==
  setNexenConfig(Call(w, "onMuteUpdate", B2N(mute), Undef),
                 Spread(w.nexenConfig, [muted |-> mute]))

onToggleVolume(c, w) == handleMuteVideo(w, ~Truthy(c.nexenConfig, "muted"))

(* Faulty variant of the [paused] effect: resuming is not reported. *)
pausedEffect_silentPlay(r, w) ==
  IF r.paused
    THEN LET w1 == IF w.isStopped
                     THEN Call(videoSeek(r, w, 0), "onStop", 0,
                               CallbackIndex(r))
                     ELSE w
         IN  Call(w1, "onPause", Undef, CallbackIndex(r))
    ELSE [w EXCEPT !.isStopped = FALSE]

pausedEffect(r, w) ==
  IF r.paused
    THEN LET w1 == IF w.isStopped
                     THEN Call(videoSeek(r, w, 0), "onStop", 0,
                               CallbackIndex(r))
                     ELSE w
         IN  Call(w1, "onPause", Undef, CallbackIndex(r))
    ELSE Call([w EXCEPT !.isStopped = FALSE], "onPlay", Undef,
              CallbackIndex(r))

IsAuto(r) == Num(r.nexenConfig, "controlHideMode") = "auto"

controlEffect(r, w) ==
  LET w1 == [w EXCEPT !.isFullscreen = r.fullScreen]
  IN  IF r.showControl
        THEN LET w2 == startControlShowAnimation(w1)
             IN  IF IsAuto(r) THEN setControlTimeout(w2) ELSE w2
        ELSE IF IsAuto(r) THEN clearControlTimeout(w1) ELSE w1

(* Faulty variant of the [playerConfig] effect: the host's config is merged *)
(* over the defaults, not over the config in effect.                       *)
playerConfigEffect_reset(r, w, playerConfig) ==
  LET newConfig == Spread(DefaultConfig, playerConfig)
      w1 == setNexenConfig(w, newConfig)
  IN  IF Truthy(newConfig, "optimize")
        THEN IF Num(newConfig, "index") # Num(newConfig, "activeIndex")
               THEN hideMainControl([w1 EXCEPT !.paused = TRUE], FALSE)
               ELSE [w1 EXCEPT !.playList =
                       Spread(@, [currentIndex |->
                                    Num(newConfig, "activeIndex")])]
        ELSE w1

playerConfigEffect(r, w, playerConfig) ==
  LET newConfig == Spread(r.nexenConfig, playerConfig)
      w1 == setNexenConfig(w, newConfig)
  IN  IF Truthy(newConfig, "optimize")
        THEN IF Num(newConfig, "index") # Num(newConfig, "activeIndex")
               THEN hideMainControl([w1 EXCEPT !.paused = TRUE], FALSE)
               ELSE [w1 EXCEPT !.playList =
                       Spread(@, [currentIndex |->
                                    Num(newConfig, "activeIndex")])]
        ELSE w1

playerPlayListEffect(w, playerPlayList) ==
  [w EXCEPT !.playList = Spread(@, playerPlayList)]

NoProps == [config |-> {}, playList |-> {}]

StateChanged(a, b) ==
  \/ a.showControl # b.showControl
  \/ a.showMoreControl # b.showMoreControl
  \/ a.showSpeedControl # b.showSpeedControl
  \/ a.showTrackControl # b.showTrackControl
  \/ a.showPlaylistControl # b.showPlaylistControl
  \/ a.error # b.error
  \/ a.locked # b.locked
  \/ a.fullScreen # b.fullScreen
  \/ a.paused # b.paused
  \/ a.playList # b.playList
  \/ b.configTouched

(* The effects of one commit, in the order the component declares them. *)
RunEffects(old, r, mount, props) ==
  LET touched == r.configTouched
      shown   == r.showControl /\ ~old.showControl
      w0 == [r EXCEPT
               !.configTouched = FALSE,
               !.staleTimers = IF shown THEN r.timers ELSE @,
               !.hideAnimStale = IF shown THEN r.hideAnim ELSE @,
               !.onEndPlayList =
                  IF mount \/ old.paused # r.paused \/ touched
                    THEN r.playList ELSE @]
      Effect1(w) == IF mount \/ old.paused # r.paused
                      THEN pausedEffect(r, w) ELSE w
      Effect2(w) == IF \/ mount \/ touched
                       \/ old.showControl # r.showControl
                       \/ old.fullScreen # r.fullScreen
                       \/ old.locked # r.locked
                      THEN controlEffect(r, w) ELSE w
      Effect3(w) == IF props.config = {}
                      THEN w
                      ELSE playerConfigEffect(r, w,
                                              CHOOSE x \in props.config : TRUE)
      Effect4(w) == IF props.playList = {}
                      THEN w
                      ELSE playerPlayListEffect(w,
                             CHOOSE x \in props.playList : TRUE)
  IN  CHOOSE y \in
        { Effect4(w3) : w3 \in
          { Effect3(w2) : w2 \in
            { Effect2(w1) : w1 \in { Effect1(w) : w \in {w0} } } } } : TRUE

(* playList?.items ? (items.length !== 0 ? items[currentIndex].itemSource  *)
(* : nexenSource) : nexenSource, computed in the body of every render.     *)
newSource(c) ==
  IF "items" \in DOMAIN c.playList /\ ItemsLength(c.playList) # 0
    THEN ItemSource(Num(c.playList, "currentIndex"))
    ELSE c.nexenSource

(* items[currentIndex] is undefined outside the list, and reading its      *)
(* itemSource throws a TypeError in the body of the render.                *)
RenderThrows(c) ==
  /\ "items" \in DOMAIN c.playList /\ ItemsLength(c.playList) # 0
  /\ ~ ( /\ Num(c.playList, "currentIndex") >= 0
         /\ Num(c.playList, "currentIndex") < ItemsLength(c.playList) )

(* No error boundary catches the error: the tree is unmounted and the      *)
(* cleanup of the mount effect runs.                                       *)
renderError(w) ==
  [clearControlTimeout(w) EXCEPT !.mounted = FALSE, !.renderThrew = TRUE]

(* source.selectedTextTrack, undefined when the object has no such field. *)
TrackOf(o, f) == IF f \in DOMAIN o THEN o[f] ELSE "undefined"

(* The props of the Video element, when it is rendered. *)
VideoProps(c) ==
  [ source |-> newSource(c).source,
    selectedTextTrack |-> TrackOf(newSource(c), "selectedTextTrack"),
    selectedAudioTrack |-> TrackOf(newSource(c), "selectedAudioTrack") ]

RECURSIVE Render(_, _, _, _)
Render(old, r, mount, props) ==
  LET Settle(w) ==
        IF StateChanged(r, w) THEN Render(r, w, FALSE, NoProps) ELSE w
  IN  IF RenderThrows(r)
        THEN renderError(r)
        ELSE CHOOSE y \in
               { Settle(w) : w \in {RunEffects(old, r, mount, props)} } : TRUE

(* One event: the handler's writes h, the renders and effects they cause,  *)
(* and the commit of the settled state.                                    *)
Step(h, mount, props, op) ==
  \E c \in {Cur} : \E w \in {h} :
    \E r \in {Render(c, w, mount, props)} : Commit(r, op)

-----------------------------------------------------------------------------
(* What the host may pass as props, and the calls it may make on the ref.  *)

ConfigInputs ==
  { NoFields,
    [controlHideMode |-> "auto"],
    [controlHideMode |-> "touch"],
    [autoPlay |-> TRUE],
    [repeat |-> TRUE],
    [optimize |-> TRUE, index |-> 0, activeIndex |-> 0],
    [optimize |-> TRUE, index |-> 0, activeIndex |-> 1] }

PlayListInputs ==
  { [items |-> n, currentIndex |-> i] :
      n \in 1 .. MaxItems, i \in 0 .. MaxItems - 1 }
  \cup { [items |-> 0, currentIndex |-> 0], [items |-> 0],
         [currentIndex |-> 0] }

(* newSource reads items[currentIndex].itemSource at every render: a host  *)
(* that keeps the component alive passes an index inside a non-empty list. *)
ValidPlayList(pl) ==
  ItemsLength(pl) > 0 => Less(Num(pl, "currentIndex"), ItemsLength(pl))

RefCalls ==
  { <<"play", Undef>>, <<"pause", Undef>>, <<"stop", Undef>>,
    <<"skipNext", Undef>>, <<"skipBack", Undef>>,
    <<"setFullScreenMode", 0>>, <<"setFullScreenMode", 1>> }

Batches(C) == UNION { [1 .. n -> C] : n \in 1 .. MaxBatch }

(* useImperativeHandle, without dependencies: the methods of the last      *)
(* render.  Calls made back to back share that render's closure.           *)
RefCall(c, w, call) ==
  CASE call[1] = "play" -> [w EXCEPT !.paused = FALSE]
    [] call[1] = "pause" -> [w EXCEPT !.paused = TRUE]
    [] call[1] = "stop" -> handleStopPlayback(c, w)
    [] call[1] = "skipNext" -> onSkipNext(c, w)
    [] call[1] = "skipBack" -> onSkipBack(c, w)
    [] OTHER -> setFullScreenMode(c, w, call[2] = 1)

RECURSIVE RefCallSeq(_, _, _)
RefCallSeq(c, w, batch) ==
  IF batch = << >>
    THEN w
    ELSE CHOOSE y \in { RefCallSeq(c, x, Tail(batch)) :
                          x \in {RefCall(c, w, Head(batch))} } : TRUE

-----------------------------------------------------------------------------

InitWith(CS, PS) ==
  \E pc \in CS, pl \in { p \in PS : ValidPlayList(p) } :
    /\ mounted = FALSE
    /\ showControl = FALSE
    /\ showMoreControl = FALSE
    /\ showSpeedControl = FALSE
    /\ showTrackControl = FALSE
    /\ showPlaylistControl = FALSE
    /\ error = FALSE
    /\ locked = FALSE
    /\ nexenConfig = Spread(DefaultConfig, pc)
    /\ fullScreen = FALSE
    /\ paused = ~Truthy(Spread(DefaultConfig, pc), "autoPlay")
    /\ playList = pl
    /\ nexenSource = PlayerSource
    /\ trackInfo = [trackTime |-> 0, totalTrackTime |-> 0,
                    cachedTrackTime |-> 0]
    /\ isSeekable = FALSE
    /\ gestureEnabled = FALSE
    /\ isStopped = FALSE
    /\ isEnded = FALSE
    /\ isFullscreen = FALSE
    /\ controlTimeoutRef = 0
    /\ firstRender =
         [nexenConfig |-> Spread(DefaultConfig, pc), playList |-> pl]
    /\ onEndPlayList = pl
    /\ timers = {}
    /\ staleTimers = {}
    /\ hideAnim = FALSE
    /\ hideAnimStale = FALSE
    /\ panelHide = {}
    /\ appState = "active"
    /\ systemBarHidden = FALSE
    /\ calls = << >>
    /\ lastOp = << >>
    /\ idle = FALSE
    /\ unmounted = FALSE

Init == InitWith(ConfigInputs, PlayListInputs)

Do(w, op, arg) == Step(w, FALSE, NoProps, << <<op, arg>> >>)

(* The first commit: every effect runs; the props are those of the first   *)
(* render, which the state was initialised from.                           *)
Mount ==
  /\ ~mounted /\ ~unmounted
  /\ Step([Cur EXCEPT !.mounted = TRUE], TRUE,
          [config |-> {nexenConfig}, playList |-> {playList}],
          << <<"mount", Undef>> >>)

HostSetConfigOf(CS) ==
  /\ mounted
  /\ \E pc \in CS :
       Step(Cur, FALSE, [config |-> {pc}, playList |-> {}],
            << <<"config", Undef>> >>)

HostSetConfig == HostSetConfigOf(ConfigInputs)

HostSetPlayListOf(PS) ==
  /\ mounted
  /\ \E pl \in PS :
       /\ ValidPlayList(Spread(playList, pl))
       /\ Step(Cur, FALSE, [config |-> {}, playList |-> {pl}],
               << <<"playList", Undef>> >>)

HostSetPlayList == HostSetPlayListOf(PlayListInputs)

HostRefOf(C) ==
  /\ mounted
  /\ \E batch \in Batches(C) :
       Step(RefCallSeq(Cur, Cur, batch), FALSE, NoProps, batch)

HostRef == HostRefOf(RefCalls)

SingleTap == mounted /\ Do(onSingleTap(Cur, Cur), "SINGLE_TAP", Undef)

DoubleTapMiddle ==
  mounted /\ Do(handleDoubleTapPlayPause(Cur, Cur), "DOUBLE_TAP_MIDDLE", Undef)

PlayPress ==
  /\ mounted /\ paused /\ ~showControl /\ ~showMoreControl
  /\ ~showSpeedControl /\ ~showTrackControl /\ ~showPlaylistControl
  /\ ~locked /\ ~error
  /\ Do(onPlayPress(Cur), "playPress", Undef)

StopPress ==
  /\ mounted /\ showControl
  /\ Do(handleStopPlayback(Cur, Cur), "stopPress", Undef)

TogglePlayPause ==
  mounted /\ showControl /\ Do(onTogglePlayPause(Cur), "playPausePress", Undef)

SkipNextPress ==
  mounted /\ showControl /\ Do(onSkipNext(Cur, Cur), "skipNextPress", Undef)

SkipBackPress ==
  mounted /\ showControl /\ Do(onSkipBack(Cur, Cur), "skipBackPress", Undef)

ToggleFullScreen ==
  /\ mounted /\ showControl
  /\ Do(onToggleFullScreen(Cur, Cur), "fullScreenPress", Undef)

BackPress ==
  mounted /\ Do(onBackPress(Cur), "backPress", B2N(onBackPressResult(Cur)))

(* The app leaves the foreground and returns to it. *)
AppStateChange ==
  /\ mounted
  /\ \E nextAppState \in {"active", "background"} \ {appState} :
       Do(onAppStateChange(Cur, nextAppState), "appState", nextAppState)

MorePress == mounted /\ showControl /\ Do(onMorePress(Cur), "morePress", Undef)

MoreItemPress ==
  /\ mounted /\ showMoreControl
  /\ \E item \in {"lock", "speed", "repeat"} :
       Do(onMoreItemPress(Cur, Cur, item), item, Undef)

CcPress == mounted /\ showControl /\ Do(onCcPress(Cur), "ccPress", Undef)

(* The tracks the track panel offers. *)
TrackInputs == { "en", "fr" }

TextTrackSelect ==
  /\ mounted /\ showTrackControl
  /\ \E t \in TrackInputs :
       Do(onTextTrackSelect(Cur, t), "textTrackSelect", t)

AudioTrackSelect ==
  /\ mounted /\ showTrackControl
  /\ \E t \in TrackInputs :
       Do(onAudioTrackSelect(Cur, t), "audioTrackSelect", t)

VideoListPress ==
  mounted /\ showControl /\ Do(onVideoListPress(Cur), "videoListPress", Undef)

PlaylistItemPress ==
  /\ mounted /\ showPlaylistControl
  /\ \E i \in 0 .. ItemsLength(playList) - 1 :
       Do(onPlaylistItemPress(Cur, i), "playlistItemPress", i)

ReachedToEnd ==
  /\ mounted /\ showControl /\ locked
  /\ Do(onReachedToEnd(Cur), "reachedToEnd", Undef)

VideoLoad == mounted /\ VideoMounted(Cur) /\ Do(onLoad(Cur), "onLoad", Undef)

VideoEnd == mounted /\ VideoMounted(Cur) /\ Do(onEnd(Cur, Cur), "onEnd", Undef)

VideoSeek ==
  /\ mounted /\ VideoMounted(Cur)
  /\ \E atZero \in BOOLEAN : Do(onSeek(Cur, atZero), "onSeek", B2N(atZero))

(* The values a drag passes through before it ends. *)
GestureMoveInputs == { 0, 30, 100 }

GestureMove ==
  /\ mounted /\ gestureEnabled
  /\ \E event \in {"VOLUME", "BRIGHTNESS"} : \E value \in GestureMoveInputs :
       Do(onGestureMove(Cur, event, value), "MOVE", << event, value >>)

GestureEnd ==
  /\ mounted /\ gestureEnabled
  /\ \E event \in {"VOLUME", "BRIGHTNESS"} :
       Do(onGestureEnd(Cur, event, 50), event, 50)

VolumeSeekEnd ==
  mounted /\ showControl /\ Do(onVolumeSeekEnd(Cur, 50), "volumeSeekEnd", 50)

ToggleVolume ==
  mounted /\ showControl /\ Do(onToggleVolume(Cur, Cur), "volumePress", Undef)

AspectRatioPress ==
  /\ mounted /\ showControl
  /\ Do(onAspectRatioPress(Cur, Cur), "aspectRatioPress", Undef)

SpeedUpdate ==
  /\ mounted /\ showSpeedControl
  /\ Do(onSpeedUpdate(Cur, "1.5"), "speedUpdate", Undef)

VideoProgress ==
  /\ mounted /\ VideoMounted(Cur)
  /\ \E t \in 0 .. MaxTime : \E playable \in t .. MaxTime :
       Do(onProgress(Cur, t, playable), "onProgress", t)

DoubleTapSeek ==
  /\ mounted
  /\ \E side \in {"DOUBLE_TAP_LEFT", "DOUBLE_TAP_RIGHT"} :
       \E value \in 0 .. MaxTime :
         Do(onDoubleTapSeek(Cur, Cur, value), side, value)

VideoError ==
  mounted /\ VideoMounted(Cur) /\ Do(onError(Cur), "onError", Undef)

(* An auto-hide timer expires: hideMainControl(). *)
TimerFire ==
  /\ mounted
  /\ \E id \in timers :
       Do(hideMainControl([Cur EXCEPT !.timers = @ \ {id},
                                      !.staleTimers = @ \ {id}],
                          id \in staleTimers),
          "timer", Undef)

HideAnimEnd ==
  mounted /\ hideAnim /\ Do(hideCallback(Cur), "hideAnimEnd", Undef)

PanelHideEnd ==
  /\ mounted
  /\ \E p \in panelHide : Do(panelHidden(Cur, p), "panelHideEnd", Undef)

(* The cleanup of the mount effect: the back handler and the app-state     *)
(* subscription are removed (no event is delivered once mounted is false)  *)
(* and clearTimeout is called on the handle in controlTimeoutRef.          *)
Unmount ==
  /\ mounted
  /\ \E w \in {[clearControlTimeout(Cur) EXCEPT !.mounted = FALSE]} :
       Commit(w, << <<"unmount", Undef>> >>)

(* A timer that was not cleared expires after the unmount and runs its     *)
(* callback, hideMainControl, of the unmounted component.                  *)
LateTimerFire ==
  /\ unmounted
  /\ \E id \in timers :
       Commit(Call([Cur EXCEPT !.timers = @ \ {id},
                               !.staleTimers = @ \ {id}],
                   "hideMainControl", Undef, Undef),
              << <<"timer", Undef>> >>)

Next ==
  \/ Mount \/ HostSetConfig \/ HostSetPlayList \/ HostRef
  \/ SingleTap \/ DoubleTapMiddle \/ PlayPress \/ StopPress
  \/ TogglePlayPause \/ SkipNextPress \/ SkipBackPress
  \/ ToggleFullScreen \/ BackPress
  \/ MorePress \/ MoreItemPress \/ CcPress \/ VideoListPress
  \/ TextTrackSelect \/ AudioTrackSelect \/ AppStateChange \/ GestureMove
  \/ PlaylistItemPress \/ ReachedToEnd
  \/ VideoLoad \/ VideoEnd \/ VideoSeek \/ VideoError
  \/ TimerFire \/ HideAnimEnd \/ PanelHideEnd
  \/ Unmount \/ LateTimerFire
  \/ VideoProgress \/ DoubleTapSeek
  \/ GestureEnd \/ VolumeSeekEnd \/ ToggleVolume \/ AspectRatioPress
  \/ SpeedUpdate

Spec == Init /\ [][Next]_vars

-----------------------------------------------------------------------------
(* The product of every input is too large to enumerate; each family of    *)
(* properties is checked on the events that can reach the state it reads.  *)

(* Control visibility: taps, the more menu, lock, fullscreen, timers,      *)
(* animations and host configs.                                            *)
ControlsConfigInputs ==
  { [controlHideMode |-> "auto"],
    [controlHideMode |-> "touch"],
    [optimize |-> TRUE, index |-> 0, activeIndex |-> 1] }

ControlsInit == InitWith(ControlsConfigInputs, {DefaultPlayList})

ControlsConfig == HostSetConfigOf(ControlsConfigInputs)

ControlsNext ==
  \/ Mount \/ ControlsConfig
  \/ SingleTap \/ ToggleFullScreen
  \/ MorePress \/ MoreItemPress
  \/ ReachedToEnd
  \/ TimerFire \/ HideAnimEnd \/ PanelHideEnd

SpecControls == ControlsInit /\ [][ControlsNext]_vars

(* Auto-hide: the user and the host stop interacting at some point (idle); *)
(* pending timers and animations still complete.                           *)
AutoHideConfigInputs ==
  { [controlHideMode |-> "auto"], [controlHideMode |-> "touch"] }

AutoHideInit == InitWith(AutoHideConfigInputs, {DefaultPlayList})

AutoHideConfig == HostSetConfigOf(AutoHideConfigInputs)

GoIdle ==
  mounted /\ ~idle /\ idle' = TRUE /\ UNCHANGED << world, unmounted >>

AutoHideNext ==
  \/ Mount
  \/ ~idle /\ AutoHideConfig
  \/ ~idle /\ SingleTap
  \/ ~idle /\ ToggleFullScreen
  \/ ~idle /\ MorePress
  \/ GoIdle
  \/ TimerFire \/ HideAnimEnd \/ PanelHideEnd

FairAutoHide ==
  /\ AutoHideInit /\ [][AutoHideNext]_vars
  /\ WF_vars(TimerFire) /\ WF_vars(HideAnimEnd)

(* Playback: play, pause, stop, the video element's events. *)
PlaybackConfigInputs ==
  { NoFields, [autoPlay |-> TRUE], [repeat |-> TRUE],
    [optimize |-> TRUE, index |-> 0, activeIndex |-> 0],
    [optimize |-> TRUE, index |-> 0, activeIndex |-> 1] }

PlaybackInit == InitWith(PlaybackConfigInputs, {DefaultPlayList})

PlaybackConfig == HostSetConfigOf(PlaybackConfigInputs)

PlaybackRef ==
  HostRefOf({ <<"play", Undef>>, <<"pause", Undef>>, <<"stop", Undef>> })

PlaybackNext ==
  \/ Mount \/ PlaybackConfig \/ PlaybackRef
  \/ SingleTap \/ HideAnimEnd
  \/ DoubleTapMiddle \/ PlayPress \/ StopPress \/ TogglePlayPause
  \/ VideoLoad \/ VideoEnd \/ VideoSeek

SpecPlayback == PlaybackInit /\ [][PlaybackNext]_vars

(* Load errors: the video element's events around play, pause and stop. *)
ErrorNext ==
  \/ Mount \/ PlaybackConfig \/ PlaybackRef
  \/ DoubleTapMiddle
  \/ VideoLoad \/ VideoEnd \/ VideoSeek \/ VideoError

SpecError == PlaybackInit /\ [][ErrorNext]_vars

(* Playlist: skips, item selection, host playlists, loads. *)
PlaylistConfigInputs ==
  { NoFields, [optimize |-> TRUE, index |-> 0, activeIndex |-> 0] }

PlaylistInit == InitWith(PlaylistConfigInputs, PlayListInputs)

PlaylistRef ==
  HostRefOf({ <<"skipNext", Undef>>, <<"skipBack", Undef>> })

PlaylistNext ==
  \/ Mount \/ PlaylistRef \/ HostSetPlayList
  \/ SingleTap \/ HideAnimEnd
  \/ SkipNextPress \/ SkipBackPress
  \/ VideoListPress \/ PlaylistItemPress \/ PanelHideEnd
  \/ VideoLoad

SpecPlaylist == PlaylistInit /\ [][PlaylistNext]_vars

(* Fullscreen: the button, the hardware back press, the ref method. *)
FullScreenRef ==
  HostRefOf({ <<"setFullScreenMode", 0>>, <<"setFullScreenMode", 1>> })

FullScreenInit == InitWith(AutoHideConfigInputs, {DefaultPlayList})

FullScreenNext ==
  \/ Mount \/ AutoHideConfig \/ FullScreenRef
  \/ SingleTap \/ TimerFire \/ HideAnimEnd
  \/ ToggleFullScreen \/ BackPress

SpecFullScreen == FullScreenInit /\ [][FullScreenNext]_vars

-----------------------------------------------------------------------------
(* Reading the record of the last event. *)

Named(cs, n) == SelectSeq(cs, LAMBDA c : c.name = n)

Count(cs, n) == Len(Named(cs, n))

OpIs(op, n) == Len(op) = 1 /\ op[1][1] = n

AllOps(op, n) == Len(op) >= 1 /\ \A i \in 1 .. Len(op) : op[i][1] = n

LastOpIs(op, n) == Len(op) >= 1 /\ op[Len(op)][1] = n

NoPanel ==
  /\ ~showMoreControl /\ ~showSpeedControl
  /\ ~showTrackControl /\ ~showPlaylistControl

-----------------------------------------------------------------------------
(* C1: a SINGLE_TAP with no modal panel shown makes showControl true when  *)
(* the main controls are hidden, and starts the hide animation when they   *)
(* are shown; showControl is false once that animation's callback has run. *)
C1_TapTogglesControl ==
  [][ /\ (OpIs(lastOp', "SINGLE_TAP") /\ NoPanel /\ ~showControl)
           => showControl'
      /\ (OpIs(lastOp', "SINGLE_TAP") /\ NoPanel /\ showControl)
           => hideAnim'
      /\ OpIs(lastOp', "hideAnimEnd") => ~showControl' ]_vars

(* C2: play() leaves paused false and pause() leaves it true; a change of  *)
(* paused to false invokes onPlay exactly once, a change to true invokes   *)
(* onPause exactly once; play() while playing and pause() while paused     *)
(* invoke neither.                                                         *)
C2_PlayPause ==
  [][ /\ LastOpIs(lastOp', "play") => ~paused'
      /\ LastOpIs(lastOp', "pause") => paused'
      /\ (paused /\ ~paused') => Count(calls', "onPlay") = 1
      /\ (~paused /\ paused') => Count(calls', "onPause") = 1
      /\ (AllOps(lastOp', "play") /\ ~paused)
           => Count(calls', "onPlay") + Count(calls', "onPause") = 0
      /\ (AllOps(lastOp', "pause") /\ paused)
           => Count(calls', "onPlay") + Count(calls', "onPause") = 0 ]_vars

C2_Witness ==
  /\ OpIs(lastOp, "play") /\ ~paused
  /\ Count(calls, "onPlay") = 1 /\ Count(calls, "onPause") = 0

(* C3: a stop request (stop() or the stop button) made while the player is *)
(* playing pauses it, seeks the video to 0 and invokes onStop exactly      *)
(* once.                                                                   *)
C3_StopWhilePlaying ==
  [][ ((OpIs(lastOp', "stop") \/ OpIs(lastOp', "stopPress"))
         /\ ~paused /\ VideoMounted(Cur))
        => /\ paused'
           /\ \E i \in 1 .. Len(calls') :
                calls'[i].name = "seek" /\ calls'[i].arg = 0
           /\ Count(calls', "onStop") = 1 ]_vars

SkipsTo(pl, step) ==
  [name |-> IF step = 1 THEN "onSkipNext" ELSE "onSkipBack",
   arg |-> pl["currentIndex"] + step, idx |-> Undef]

(* C4: skipNext moves currentIndex up by one and invokes onSkipNext with   *)
(* the new index only when currentIndex < items.length - 1; skipBack       *)
(* moves it down by one and invokes onSkipBack with the new index only     *)
(* when currentIndex > 0; at the last (first) item, or with an empty or    *)
(* missing item list, nothing changes and no callback is invoked.          *)
C4_SkipOne ==
  [][ /\ (OpIs(lastOp', "skipNext") \/ OpIs(lastOp', "skipNextPress"))
           => IF ItemsLength(playList) > 0
                   /\ Less(Num(playList, "currentIndex"),
                           ItemsLength(playList) - 1)
                THEN /\ playList' = Spread(playList,
                            [currentIndex |-> playList["currentIndex"] + 1])
                     /\ calls' = << SkipsTo(playList, 1) >>
                ELSE playList' = playList /\ calls' = << >>
      /\ (OpIs(lastOp', "skipBack") \/ OpIs(lastOp', "skipBackPress"))
           => IF ItemsLength(playList) > 0
                   /\ Less(0, Num(playList, "currentIndex"))
                THEN /\ playList' = Spread(playList,
                            [currentIndex |-> playList["currentIndex"] - 1])
                     /\ calls' = << SkipsTo(playList, 0 - 1) >>
                ELSE playList' = playList /\ calls' = << >> ]_vars

Min(a, b) == IF a < b THEN a ELSE b

(* C5: k skipNext() calls on n items at index i leave currentIndex at      *)
(* min(i + k, n - 1) and invoke onSkipNext once per advance, with indices  *)
(* i + 1, i + 2, ..., also when made back to back before a re-render.      *)
C5_SkipMany ==
  [][ (AllOps(lastOp', "skipNext") /\ ItemsLength(playList) > 0)
        => LET i == playList["currentIndex"]
               t == Min(i + Len(lastOp'), ItemsLength(playList) - 1)
           IN  /\ playList'["currentIndex"] = t
               /\ Len(calls') = t - i
               /\ \A j \in 1 .. Len(calls') :
                    calls'[j].name = "onSkipNext" /\ calls'[j].arg = i + j ]_vars

FullScreenOps(op) ==
  SelectSeq(op, LAMBDA o : o[1] \in {"setFullScreenMode", "fullScreenPress"})

(* C6: a change of fullScreen - by the button, by the back press or by     *)
(* setFullScreenMode - comes with one onFullScreenModeUpdate per request,  *)
(* the last of them carrying the new value as first argument.              *)
C6_FullScreenUpdate ==
  [][ (fullScreen' # fullScreen)
        => LET u == Named(calls', "onFullScreenModeUpdate")
           IN  /\ Len(u) >= 1
               /\ u[Len(u)].arg = B2N(fullScreen')
               /\ Len(lastOp') = 1 => Len(u) = 1
               /\ Len(u) = IF OpIs(lastOp', "backPress")
                             THEN 1 ELSE Len(FullScreenOps(lastOp')) ]_vars

C6_Witness ==
  /\ OpIs(lastOp, "fullScreenPress") /\ fullScreen
  /\ Named(calls, "onFullScreenModeUpdate")
       = << [name |-> "onFullScreenModeUpdate", arg |-> 1,
             idx |-> CallbackIndex(Cur)] >>

IndexCallbacks ==
  {"onPlay", "onPause", "onStop", "onLoad", "onFullScreenModeUpdate"}

(* C7: the index argument of onPlay, onPause, onStop, onLoad and           *)
(* onFullScreenModeUpdate is the playlist index current at the call: the   *)
(* one before the event or, for a callback invoked after the re-render,    *)
(* the one after it.                                                       *)
C7_CallbackIndexCurrent ==
  [][ \A i \in 1 .. Len(calls') :
        calls'[i].name \in IndexCallbacks
          => calls'[i].idx \in
               { CallbackIndex([nexenConfig |-> nexenConfig,
                                playList |-> playList]),
                 CallbackIndex([nexenConfig |-> nexenConfig',
                                playList |-> playList']) } ]_vars

(* C8: a load error sets error and invokes onError once, and nothing else  *)
(* (no seek, no reload); error stays set until a load event clears it.     *)
C8_ErrorSurfaced ==
  [][ /\ OpIs(lastOp', "onError")
           => /\ error'
              /\ calls' = << [name |-> "onError", arg |-> Undef,
                              idx |-> Undef] >>
              /\ paused' = paused
      /\ (error /\ ~error') => OpIs(lastOp', "onLoad") ]_vars

C8_Witness ==
  OpIs(lastOp, "onError") /\ error /\ Count(calls, "onError") = 1

(* C9: in 'auto' mode, once the user and the host have stopped interacting *)
(* while the main controls are shown, the controls get hidden.             *)
C9_AutoHide == (idle /\ showControl /\ IsAuto(Cur)) ~> ~showControl

C9_Witness ==
  /\ idle /\ IsAuto(Cur) /\ ~showControl /\ OpIs(lastOp, "hideAnimEnd")
  /\ Count(calls, "controlHidden") = 1 /\ timers = {}

(* C10: controls that are shown are hidden only by a trigger of their own  *)
(* visibility period: never by a timer armed, or a hide animation started, *)
(* before they became visible.                                             *)
C10_NoStaleHide ==
  \A i \in 1 .. Len(calls) :
    calls[i].name = "controlHidden" => calls[i].arg = 0

(* C11: at most one auto-hide timer is pending at any time.                *)
C11_OneTimerPending == Cardinality(timers) <= 1

-----------------------------------------------------------------------------
(* Mount, use and unmount. *)
LifecycleNext ==
  \/ Mount \/ AutoHideConfig
  \/ SingleTap \/ ToggleFullScreen \/ BackPress
  \/ TimerFire \/ HideAnimEnd
  \/ Unmount \/ LateTimerFire

SpecLifecycle == AutoHideInit /\ [][LifecycleNext]_vars

(* C12: once the component is unmounted no auto-hide timer it armed is     *)
(* pending, and no callback of the component has run since the unmount.    *)
C12_CleanUnmount == unmounted => (timers = {} /\ calls = << >>)

(* C15: every change of locked comes with one onScreenLockUpdate carrying  *)
(* the new value: true when locked from the more menu, false when unlocked *)
(* by sliding the lock button to its end.                                  *)
C15_LockReported ==
  [][ (locked' # locked)
        => Named(calls', "onScreenLockUpdate")
             = << [name |-> "onScreenLockUpdate", arg |-> B2N(locked'),
                   idx |-> Undef] >> ]_vars

-----------------------------------------------------------------------------
(* Double taps: seek left or right, play or pause in the middle. *)
DoubleTapNext ==
  \/ Mount \/ PlaybackConfig
  \/ VideoLoad \/ VideoProgress \/ VideoEnd \/ VideoSeek
  \/ DoubleTapSeek \/ DoubleTapMiddle

SpecDoubleTap == PlaybackInit /\ [][DoubleTapNext]_vars

(* C20: a DOUBLE_TAP_LEFT or DOUBLE_TAP_RIGHT carrying a time v >= 0 seeks *)
(* the video to v and sets trackTime to v, leaving totalTrackTime and      *)
(* cachedTrackTime as they were; a DOUBLE_TAP_MIDDLE flips paused.         *)
C20_DoubleTap ==
  [][ /\ ((OpIs(lastOp', "DOUBLE_TAP_LEFT") \/ OpIs(lastOp', "DOUBLE_TAP_RIGHT"))
            /\ VideoMounted(Cur))
           => /\ \E i \in 1 .. Len(calls') :
                   calls'[i].name = "seek" /\ calls'[i].arg = lastOp'[1][2]
              /\ trackInfo' = [trackInfo EXCEPT !.trackTime = lastOp'[1][2]]
      /\ OpIs(lastOp', "DOUBLE_TAP_MIDDLE") => paused' = ~paused ]_vars

(* C18: in optimize mode, while config.index differs from                  *)
(* config.activeIndex, the player is paused and no video element is        *)
(* mounted.                                                                *)
C18_InactivePaused ==
  (/\ mounted /\ Truthy(nexenConfig, "optimize")
   /\ Num(nexenConfig, "index") # Num(nexenConfig, "activeIndex"))
    => (paused /\ ~VideoMounted(Cur))

(* C19: when a load completes on a paused player, playback starts exactly  *)
(* when autoPlay of the config in effect at that moment is true.           *)
C19_AutoPlayOnLoad ==
  [][ (OpIs(lastOp', "onLoad") /\ paused)
        => (~paused' <=> Truthy(nexenConfig, "autoPlay")) ]_vars

-----------------------------------------------------------------------------
(* Settings: the host's config against the user's changes. *)
SettingsConfigInputs ==
  { NoFields, [volume |-> 30], [muted |-> TRUE, repeat |-> TRUE] }

SettingsInit == InitWith(SettingsConfigInputs, {DefaultPlayList})

SettingsConfig ==
  /\ mounted
  /\ \E pc \in SettingsConfigInputs :
       Step(Cur, FALSE, [config |-> {pc}, playList |-> {}],
            << <<"config", pc>> >>)

SettingsNext ==
  \/ Mount \/ SettingsConfig
  \/ SingleTap \/ HideAnimEnd
  \/ GestureEnd \/ ToggleVolume \/ AspectRatioPress
  \/ MorePress \/ MoreItemPress \/ SpeedUpdate \/ PanelHideEnd

SpecSettings == SettingsInit /\ [][SettingsNext]_vars

ClaimedDefaults ==
  [ doubleTapTime |-> 300, controlTimeout |-> 5000,
    controlHideMode |-> "touch", layoutMode |-> "intermediate",
    resizeMode |-> "contain", volume |-> 80, brightness |-> 25,
    playbackSpeed |-> "1.0", muted |-> FALSE, repeat |-> FALSE,
    autoPlay |-> FALSE,
    disableOnScreenPlayButton |-> FALSE, disableBack |-> FALSE,
    disableResizeMode |-> FALSE, disableMore |-> FALSE,
    disableSkip |-> FALSE, disableStop |-> FALSE, disableVolume |-> FALSE,
    disableFullscreen |-> FALSE, disablePlayList |-> FALSE,
    disableSubtitle |-> FALSE ]

UserChanges(op) ==
  IF OpIs(op, "VOLUME") \/ OpIs(op, "volumeSeekEnd") THEN {"volume"}
  ELSE IF OpIs(op, "BRIGHTNESS") THEN {"brightness"}
  ELSE IF OpIs(op, "volumePress") THEN {"muted"}
  ELSE IF OpIs(op, "repeat") THEN {"repeat"}
  ELSE IF OpIs(op, "speedUpdate") THEN {"playbackSpeed"}
  ELSE IF OpIs(op, "aspectRatioPress") THEN {"resizeMode"}
  ELSE {}

HostSupplies(op) == IF OpIs(op, "config") THEN DOMAIN op[1][2] ELSE {}

(* C13: the config in effect is the built-in defaults overridden field by  *)
(* field by the host's config: at construction, and afterwards a field     *)
(* changes only when the host supplies it or the user changes it, so a     *)
(* field neither of them touched has its default value.                    *)
C13_DefaultsKept ==
  /\ \E pc \in SettingsConfigInputs :
       /\ DOMAIN ClaimedDefaults \subseteq DOMAIN nexenConfig
       /\ \A f \in DOMAIN ClaimedDefaults :
            nexenConfig[f] = IF f \in DOMAIN pc THEN pc[f]
                                                ELSE ClaimedDefaults[f]
  /\ [][ \A f \in DOMAIN ClaimedDefaults :
           /\ f \in DOMAIN nexenConfig'
           /\ nexenConfig'[f] # nexenConfig[f]
                => f \in HostSupplies(lastOp') \cup UserChanges(lastOp') ]_vars

C13_Witness ==
  /\ OpIs(lastOp, "config") /\ DOMAIN lastOp[1][2] = {"volume"}
  /\ nexenConfig["volume"] = 30 /\ nexenConfig["brightness"] = 25
  /\ nexenConfig["controlTimeout"] = 5000

(* C14: on a host config update every field of the host's object takes the *)
(* host's value and every other field keeps its value, so the user's       *)
(* changes to fields the update does not mention survive it.               *)
C14_HostMerge ==
  [][ OpIs(lastOp', "config")
        => /\ DOMAIN nexenConfig' = DOMAIN nexenConfig \cup DOMAIN lastOp'[1][2]
           /\ \A f \in DOMAIN nexenConfig' :
                nexenConfig'[f] = IF f \in DOMAIN lastOp'[1][2]
                                    THEN lastOp'[1][2][f]
                                    ELSE nexenConfig[f] ]_vars

C14_Witness ==
  /\ OpIs(lastOp, "config") /\ DOMAIN lastOp[1][2] = {"muted", "repeat"}
  /\ nexenConfig["volume"] = 50 /\ nexenConfig["playbackSpeed"] = "1.5"
  /\ nexenConfig["resizeMode"] = "stretch" /\ nexenConfig["muted"]

-----------------------------------------------------------------------------
(* The source slice: the playlist, the optimize-mode config and the track  *)
(* panel, which decide the source and the tracks of the Video element.     *)
SourceConfigInputs ==
  { NoFields, [optimize |-> TRUE, index |-> 1, activeIndex |-> 1] }

SourcePlayListInputs ==
  { [items |-> 0, currentIndex |-> 0], [items |-> 1, currentIndex |-> 0],
    [items |-> 2, currentIndex |-> 1] }

SourceInit == InitWith(SourceConfigInputs, SourcePlayListInputs)

SourceConfig == HostSetConfigOf(SourceConfigInputs)

SourcePlayList == HostSetPlayListOf(SourcePlayListInputs)

SourceNext ==
  \/ Mount \/ SourceConfig \/ SourcePlayList
  \/ SingleTap \/ HideAnimEnd
  \/ SkipNextPress \/ SkipBackPress
  \/ VideoListPress \/ PlaylistItemPress
  \/ CcPress \/ TextTrackSelect \/ AudioTrackSelect \/ PanelHideEnd

SpecSource == SourceInit /\ [][SourceNext]_vars

(* C16: after the user selects a text track or an audio track in the track *)
(* panel, the Video element's selectedTextTrack / selectedAudioTrack is    *)
(* that selection, with the source of the prop and with the source of a    *)
(* playlist item alike.                                                    *)
C16_TrackSelected ==
  [][ /\ (OpIs(lastOp', "textTrackSelect") /\ VideoMounted(Cur'))
         => VideoProps(Cur').selectedTextTrack = lastOp'[1][2]
      /\ (OpIs(lastOp', "audioTrackSelect") /\ VideoMounted(Cur'))
         => VideoProps(Cur').selectedAudioTrack = lastOp'[1][2] ]_vars

(* C17: the Video element's source is the itemSource of the item at        *)
(* currentIndex when the playlist has an item and the source prop          *)
(* otherwise, and with a non-empty playlist the index is inside the list.  *)
C17_SourceInRange ==
  /\ ItemsLength(playList) > 0
       => /\ Num(playList, "currentIndex") >= 0
          /\ Num(playList, "currentIndex") < ItemsLength(playList)
  /\ (mounted /\ VideoMounted(Cur))
       => VideoProps(Cur).source =
            IF ItemsLength(playList) > 0
              THEN ItemSource(Num(playList, "currentIndex")).source
              ELSE PlayerSource.source

-----------------------------------------------------------------------------
(* The panel slice: the four modal panels, the main controls, the lock and *)
(* the gesture flags, under taps, animation ends and video loads.          *)
PanelInit == InitWith({NoFields}, {DefaultPlayList})

PanelNext ==
  \/ Mount
  \/ SingleTap \/ HideAnimEnd
  \/ MorePress \/ MoreItemPress \/ SpeedUpdate
  \/ CcPress \/ VideoListPress \/ PanelHideEnd
  \/ VideoLoad \/ ReachedToEnd

SpecPanel == PanelInit /\ [][PanelNext]_vars

(* The first panel shown, in the order of the tap handler's tests. *)
FirstPanel ==
  IF showMoreControl THEN "more"
  ELSE IF showSpeedControl THEN "speed"
  ELSE IF showTrackControl THEN "track"
  ELSE "playlist"

(* C21: a SINGLE_TAP with a modal panel shown asks exactly the first panel *)
(* shown (more, speed, track, playlist) to hide, sets gestureEnabled, and  *)
(* leaves showControl, paused and the panels' visibility as they were.     *)
C21_TapHidesOnePanel ==
  [][ (OpIs(lastOp', "SINGLE_TAP") /\ ~NoPanel)
        => /\ panelHide' = panelHide \cup {FirstPanel}
           /\ gestureEnabled'
           /\ showControl' = showControl /\ paused' = paused
           /\ showMoreControl' = showMoreControl
           /\ showSpeedControl' = showSpeedControl
           /\ showTrackControl' = showTrackControl
           /\ showPlaylistControl' = showPlaylistControl
           /\ hideAnim' = hideAnim /\ calls' = << >> ]_vars

C21_Witness ==
  /\ OpIs(lastOp, "SINGLE_TAP") /\ showSpeedControl /\ ~showMoreControl
  /\ panelHide = {"speed"} /\ gestureEnabled

(* C22: at most one of the four modal panels is shown, and no modal panel  *)
(* is shown together with the main controls.                               *)
C22_OnePanel ==
  /\ B2N(showMoreControl) + B2N(showSpeedControl)
       + B2N(showTrackControl) + B2N(showPlaylistControl) <= 1
  /\ ~NoPanel => ~showControl

(* C23: while a modal panel is shown gestureEnabled is false. *)
C23_PanelBlocksGestures == ~NoPanel => ~gestureEnabled

(* C24: while the screen is locked isSeekable and gestureEnabled are       *)
(* false, and from a locked state they become true only by the lock        *)
(* slider reaching its end, which unlocks.                                 *)
C24_LockBlocksGestures ==
  [][ /\ locked' => (~isSeekable' /\ ~gestureEnabled')
      /\ (locked /\ (isSeekable' \/ gestureEnabled'))
           => (OpIs(lastOp', "reachedToEnd") /\ ~locked') ]_vars

-----------------------------------------------------------------------------
(* The system-bar slice: the fullscreen operations and the app state.      *)
SystemBarNext ==
  \/ Mount \/ AutoHideConfig \/ FullScreenRef
  \/ SingleTap \/ TimerFire \/ HideAnimEnd
  \/ ToggleFullScreen \/ BackPress \/ AppStateChange

SpecSystemBar == FullScreenInit /\ [][SystemBarNext]_vars

(* C25: the system bar is hidden exactly when the player is in fullscreen: *)
(* a change of fullScreen comes with the matching hideSystemBar or         *)
(* showSystemBar call, and the return to the active app state while in     *)
(* fullscreen hides the bar again.                                         *)
C25_SystemBar ==
  [][ /\ systemBarHidden' = fullScreen'
      /\ (fullScreen' # fullScreen)
           => Count(calls', IF fullScreen' THEN "hideSystemBar"
                                           ELSE "showSystemBar") >= 1
      /\ (OpIs(lastOp', "appState") /\ appState' = "active" /\ fullScreen)
           => Count(calls', "hideSystemBar") = 1 ]_vars

(* C26: a hardware back press is consumed; in fullscreen it leaves         *)
(* fullscreen without invoking onBackPress, otherwise it invokes           *)
(* onBackPress once and leaves fullScreen as it is; the fullscreen state   *)
(* it tests is the one current at the press.                               *)
C26_BackPress ==
  [][ OpIs(lastOp', "backPress")
        => /\ lastOp'[1][2] = 1
           /\ isFullscreen = fullScreen
           /\ fullScreen
                => (~fullScreen' /\ Count(calls', "onBackPress") = 0)
           /\ ~fullScreen
                => (~fullScreen' /\ Count(calls', "onBackPress") = 1) ]_vars

C26_Witness ==
  /\ OpIs(lastOp, "backPress") /\ ~fullScreen /\ systemBarHidden = FALSE
  /\ Named(calls, "showSystemBar") # << >>

-----------------------------------------------------------------------------
(* The gesture slice: volume and brightness drags, with the events that    *)
(* enable and disable gestures and the host's config.                      *)
GestureConfigInputs ==
  { NoFields, [volume |-> 30],
    [optimize |-> TRUE, index |-> 0, activeIndex |-> 1] }

GestureInit == InitWith(GestureConfigInputs, {DefaultPlayList})

GestureConfig == HostSetConfigOf(GestureConfigInputs)

GestureNext ==
  \/ Mount \/ GestureConfig
  \/ VideoLoad \/ SingleTap \/ HideAnimEnd
  \/ MorePress \/ PanelHideEnd
  \/ GestureMove \/ GestureEnd

SpecGesture == GestureInit /\ [][GestureNext]_vars

(* The callback props of the host, among the calls of an event. *)
HostCallbacks(cs) ==
  SelectSeq(cs, LAMBDA k : k.name \notin
                  { "seek", "setNativeProps.volume", "setBrightness",
                    "hideSystemBar", "showSystemBar", "hideMainControl",
                    "controlHidden" })

(* C27: a move event of a volume or brightness drag applies the value to   *)
(* the video's volume or the screen's brightness, leaves the config as it  *)
(* is and invokes no callback of the host; the end event stores the value  *)
(* in config.volume / config.brightness and invokes onVolumeUpdate /       *)
(* onBrightnessUpdate once, with that value.                               *)
C27_DragGesture ==
  [][ /\ OpIs(lastOp', "MOVE")
        => /\ nexenConfig' = nexenConfig
           /\ HostCallbacks(calls') = << >>
           /\ (lastOp'[1][2][1] = "VOLUME" /\ VideoMounted(Cur))
                => Named(calls', "setNativeProps.volume")
                     = << [name |-> "setNativeProps.volume",
                           arg |-> lastOp'[1][2][2], idx |-> Undef] >>
           /\ lastOp'[1][2][1] = "BRIGHTNESS"
                => Named(calls', "setBrightness")
                     = << [name |-> "setBrightness",
                           arg |-> lastOp'[1][2][2], idx |-> Undef] >>
      /\ OpIs(lastOp', "VOLUME")
        => /\ nexenConfig' = Spread(nexenConfig, [volume |-> lastOp'[1][2]])
           /\ HostCallbacks(calls')
                = << [name |-> "onVolumeUpdate", arg |-> lastOp'[1][2],
                      idx |-> Undef] >>
      /\ OpIs(lastOp', "BRIGHTNESS")
        => /\ nexenConfig'
                = Spread(nexenConfig, [brightness |-> lastOp'[1][2]])
           /\ HostCallbacks(calls')
                = << [name |-> "onBrightnessUpdate", arg |-> lastOp'[1][2],
                      idx |-> Undef] >> ]_vars

C27_Witness ==
  /\ OpIs(lastOp, "VOLUME") /\ nexenConfig["volume"] = 50
  /\ Named(calls, "onVolumeUpdate") # << >>
  /\ Named(calls, "setNativeProps.volume") # << >>

-----------------------------------------------------------------------------
(* The resize slice: the aspect-ratio button and the host's resizeMode,    *)
(* 'none' being a mode of the video element that RESIZE_MODE_VALUES lacks. *)
ResizeConfigInputs ==
  { NoFields, [resizeMode |-> "none"], [resizeMode |-> "cover"],
    [controlHideMode |-> "auto"] }

ResizeInit == InitWith(ResizeConfigInputs, {DefaultPlayList})

ResizeConfig == HostSetConfigOf(ResizeConfigInputs)

ResizeNext ==
  \/ Mount \/ ResizeConfig
  \/ SingleTap \/ TimerFire \/ HideAnimEnd
  \/ AspectRatioPress

SpecResize == ResizeInit /\ [][ResizeNext]_vars

(* The mode one press leaves, from the mode m. *)
PressFrom(m) == handleResizeMode(Cur, m).nexenConfig["resizeMode"]

(* C28: an aspect-ratio press takes resizeMode one step along contain ->   *)
(* cover -> stretch -> contain, three presses from a mode of the cycle     *)
(* give that mode again, and from a mode outside the cycle one press gives *)
(* 'contain'.                                                              *)
C28_ResizeCycle ==
  /\ [] \A m \in { "contain", "cover", "stretch" } :
          PressFrom(PressFrom(PressFrom(m))) = m
  /\ [][ OpIs(lastOp', "aspectRatioPress")
           => nexenConfig'["resizeMode"] =
                CASE nexenConfig["resizeMode"] = "contain" -> "cover"
                  [] nexenConfig["resizeMode"] = "cover" -> "stretch"
                  [] OTHER -> "contain" ]_vars

C28_Witness ==
  /\ OpIs(lastOp, "aspectRatioPress") /\ nexenConfig["resizeMode"] = "contain"
  /\ firstRender.nexenConfig["resizeMode"] = "none"

====
